---------------------------- MODULE Spec2Model ----------------------------
(***************************************************************************)
(* eslint-plugin-checked-error, rule no-floating-error                     *)
(* (src/rules/no-floating-error.mjs).                                      *)
(*                                                                         *)
(* The rule registers one callback, ExpressionStatement, which the host    *)
(* calls for every expression statement of a file.  The callback           *)
(*   1. classifies the statement's expression   (getStandaloneCall),       *)
(*   2. asks the type checker for the call's type and, for `await call`,   *)
(*      unwraps it                                (getAwaitedType),         *)
(*   3. flattens the type into its leaves         (flattenTypes),           *)
(*   4. walks each leaf's base types looking for a type named 'Error'      *)
(*                      (isErrorOrSubclass, isErrorInterfaceOrBase),       *)
(*   5. reports the statement when a leaf matches (context.report).        *)
(*                                                                         *)
(* The two recursive functions are modelled with their call stacks, one    *)
(* step per stack operation, so that their termination and the number of   *)
(* times a type is inspected are observable.  The type checker is the      *)
(* rule's environment: its answers are the tables of TypeGraph.            *)
(***************************************************************************)
EXTENDS Naturals, Sequences, FiniteSets, TLC

(***************************************************************************)
(* Bounds of the model.                                                    *)
(***************************************************************************)
\* Expression statements (and other statements) the host visits in one file.
MaxStatements == 2
\* Frames the JavaScript call stack holds before the engine throws
\* RangeError (Maximum call stack size exceeded).
StackLimit == 6

Undefined == "undefined"
NoSymbol == "<no symbol>"

(***************************************************************************)
(* ts.Type values.  A type is a handle; the record behind it holds what    *)
(* the rule reads from it (flags, objectFlags, types, getSymbol) and what  *)
(* the checker answers about it (getBaseConstraintOfType, getBaseTypes,    *)
(* getApparentType, the awaited / promised type).                          *)
(***************************************************************************)
Ty(flags, objectFlags, types, symbol, baseTypes, constraint, apparent, promised) ==
    [flags |-> flags, objectFlags |-> objectFlags, types |-> types,
     symbol |-> symbol, baseTypes |-> baseTypes, constraint |-> constraint,
     apparent |-> apparent, promised |-> promised]

\* any, unknown, never, literal and primitive types: no symbol, no bases.
Intrinsic(h, flag, apparent) ==
    h :> Ty({flag}, {}, <<>>, NoSymbol, <<>>, Undefined, apparent, Undefined)

\* A non-generic class or interface: its type is its declared type.
Declared(h, kind, bases) ==
    h :> Ty({"Object"}, {kind}, <<>>, h, bases, Undefined, h, Undefined)

\* An instantiation C<A> of a generic class or interface C (ts.TypeReference):
\* objectFlags is Reference alone; the symbol is C's; the declared base
\* types are those of C.
Instantiated(h, symbol, bases, promised) ==
    h :> Ty({"Object"}, {"Reference"}, <<>>, symbol, bases, Undefined, h, promised)

UnionOf(h, members) ==
    h :> Ty({"Union"}, {}, members, NoSymbol, <<>>, Undefined, h, Undefined)

IntersectionOf(h, members) ==
    h :> Ty({"Intersection"}, {}, members, NoSymbol, <<>>, Undefined, h, Undefined)

\* A type parameter; constraint is the checker's getBaseConstraintOfType
\* answer (Undefined when the parameter has none), apparent the checker's
\* getApparentType answer (that of the constraint, or unknown).
TypeParam(h, constraint, apparent) ==
    h :> Ty({"TypeParameter"}, {}, <<>>, h, <<>>, constraint, apparent, Undefined)

\* Types of a program the TypeScript checker has resolved: union members,
\* intersection members and base constraints never lead back to the type
\* they were taken from.  Base-type edges may form cycles.
ResolvedGraph ==
       Intrinsic("any", "Any", "any")
    @@ Intrinsic("errorType", "Any", "errorType")
    @@ Intrinsic("unknown", "Unknown", "unknown")
    @@ Intrinsic("never", "Never", "never")
    @@ Intrinsic("true", "BooleanLiteral", "Boolean")
    @@ Intrinsic("string", "String", "String")
    @@ Intrinsic("null", "Null", "null")
    @@ Declared("Boolean", "Interface", <<>>)
    @@ Declared("String", "Interface", <<>>)
    @@ Declared("Error", "Interface", <<>>)
    @@ Declared("Plain", "Interface", <<>>)
    @@ Declared("MyError", "Class", <<"Error">>)
    @@ Declared("DeepError", "Class", <<"MyError">>)
    @@ Declared("PlainThenError", "Interface", <<"Plain", "MyError">>)
    @@ Declared("ErrorThenPlain", "Interface", <<"MyError", "Plain">>)
    @@ Declared("Left", "Interface", <<"Plain">>)
    @@ Declared("Right", "Interface", <<"Plain">>)
    @@ Declared("Diamond", "Interface", <<"Left", "Right">>)
    @@ Declared("DiamondError", "Interface", <<"Left", "Right", "DeepError">>)
    @@ Declared("SelfBase", "Interface", <<"SelfBase">>)
    @@ Declared("CycA", "Interface", <<"CycB">>)
    @@ Declared("CycB", "Interface", <<"CycA">>)
    @@ Declared("CycErrA", "Interface", <<"CycErrB">>)
    @@ Declared("CycErrB", "Interface", <<"CycErrA", "MyError">>)
    @@ "ErrorThenable" :> Ty({"Object"}, {"Class"}, <<>>, "ErrorThenable",
                              <<"Error">>, Undefined, "ErrorThenable", "string")
    @@ Instantiated("GenericErrorOfString", "GenericError", <<"Error">>, Undefined)
    @@ Declared("ViaGeneric", "Class", <<"GenericErrorOfString">>)
    @@ Instantiated("PromiseOfErrorOrString", "Promise", <<>>, "ErrorOrString")
    @@ Instantiated("PromiseOfString", "Promise", <<>>, "string")
    @@ Instantiated("PromiseOfMyError", "Promise", <<>>, "MyError")
    @@ UnionOf("ErrorOrTrue", <<"Error", "true">>)
    @@ UnionOf("ErrorOrString", <<"Error", "string">>)
    @@ UnionOf("StringOrError", <<"string", "Error">>)
    @@ UnionOf("MyErrorOrNull", <<"MyError", "null">>)
    @@ UnionOf("StringOrNull", <<"string", "null">>)
    @@ UnionOf("LeftOrRight", <<"Left", "Right">>)
    @@ UnionOf("TOrMyError", <<"TExtendsMyError", "MyError", "null">>)
    @@ UnionOf("StringOrErrorAndPlain", <<"string", "ErrorAndPlain">>)
    @@ IntersectionOf("ErrorAndPlain", <<"Error", "Plain">>)
    @@ IntersectionOf("PlainAndUnion", <<"Plain", "MyErrorOrNull">>)
    @@ TypeParam("T", Undefined, "unknown")
    @@ TypeParam("TExtendsMyError", "MyError", "MyError")
    @@ TypeParam("TExtendsUnion", "MyErrorOrNull", "MyErrorOrNull")
    @@ TypeParam("TExtendsString", "string", "String")
    @@ UnionOf("TOrNull", <<"T", "null">>)
    @@ Declared("F1", "Class", <<>>)
    @@ Declared("F2", "Interface", <<>>)
    @@ UnionOf("F1OrF2", <<"F1", "F2">>)

\* What a checker that does not resolve circular constraints could answer in
\* addition: a type parameter whose base constraint is itself, two whose
\* constraints are each other, one whose constraint is a union it is a
\* member of.
CircularGraph ==
       TypeParam("TSelf", "TSelf", "unknown")
    @@ TypeParam("TMutualA", "TMutualB", "unknown")
    @@ TypeParam("TMutualB", "TMutualA", "unknown")
    @@ TypeParam("TInUnion", "ErrorOrTInUnion", "unknown")
    @@ UnionOf("ErrorOrTInUnion", <<"Error", "TInUnion">>)
    @@ UnionOf("ErrorOrTSelf", <<"Error", "TSelf">>)

TypeGraph == ResolvedGraph @@ CircularGraph

ResolvedTypes == DOMAIN ResolvedGraph
AllTypes == DOMAIN TypeGraph

\* F1 and F2 stand for any two declarations of the program: the base types
\* the checker answers for them are drawn, per statement checked, from every
\* list of at most two of F1, F2 and Error.
FreeTypes == {"F1", "F2"}

BaseLists ==
    LET C == FreeTypes \cup {"Error"}
    IN  {<<>>} \cup {<<a>> : a \in C} \cup {<<a, b>> : a \in C, b \in C}

Declarations == [FreeTypes -> BaseLists]

NoDeclarations == [f \in FreeTypes |-> <<>>]

\* The types whose walk reads the base types of F1 or F2.
BuiltFromFreeTypes == FreeTypes \cup {"F1OrF2"}


(***************************************************************************)
(* Syntax nodes.  A call node carries the type the checker answers for it  *)
(* (services.esTreeNodeToTSNodeMap.get + checker.getTypeAtLocation).       *)
(***************************************************************************)
NoArgument == [type |-> "none", tsType |-> Undefined]

CallExpression(t) ==
    [type |-> "CallExpression", tsType |-> t, argument |-> NoArgument]

\* await <call>
AwaitCall(t) ==
    [type |-> "AwaitExpression", tsType |-> Undefined,
     argument |-> [type |-> "CallExpression", tsType |-> t]]

\* An expression of another shape around a call of type t: await await f(),
\* f().x, c ? f() : g(), (a, f()), f?.(), f()!, void f(), await x.
OtherShapes ==
    { <<"AwaitExpression", "AwaitExpression">>,
      <<"AwaitExpression", "Identifier">>,
      <<"AwaitExpression", "MemberExpression">>,
      <<"MemberExpression", "CallExpression">>,
      <<"ConditionalExpression", "CallExpression">>,
      <<"SequenceExpression", "CallExpression">>,
      <<"ChainExpression", "CallExpression">>,
      <<"TSNonNullExpression", "CallExpression">>,
      <<"UnaryExpression", "CallExpression">> }

OtherExpression(shape, t) ==
    [type |-> shape[1], tsType |-> Undefined,
     argument |-> [type |-> shape[2], tsType |-> t]]

\* Statements that hold a call without being an expression statement:
\* return f(); const r = f(); throw f();
OtherStatementKinds == {"ReturnStatement", "VariableDeclaration", "ThrowStatement"}

\* Result types tried at the sites the rule is expected to ignore.
ProbeTypes == {"Error", "ErrorOrTrue", "MyError", "PromiseOfMyError", "string"}

NoNode == [id |-> 0, type |-> "none", expression |-> CallExpression(Undefined)]

(***************************************************************************)
(* The type checker's queries (spec section 6: the five operations).       *)
(***************************************************************************)
VARIABLE declared   \* the base types of F1 and F2 in the program checked

getTypeAtLocation(call) == call.tsType

getBaseConstraintOfType(type) == TypeGraph[type].constraint

getApparentType(type) == TypeGraph[type].apparent

getBaseTypes(type) ==
    IF type \in FreeTypes THEN declared[type] ELSE TypeGraph[type].baseTypes

getPromisedTypeOfPromise(type) == TypeGraph[type].promised

\* The type an await of a value of this type settles to.
Settled(type) ==
    IF TypeGraph[type].promised # Undefined THEN TypeGraph[type].promised ELSE type

\* What checker.getAwaitedType may answer: the settled type, or nothing.
AwaitedAnswers(type) == {Settled(type), Undefined}

\* The checker versions: which of the two unwrap operations exist.
Checkers == [getAwaitedType : BOOLEAN, getPromisedTypeOfPromise : BOOLEAN]

(***************************************************************************)
(* The rule's functions.                                                   *)
(***************************************************************************)
NoCall == [call |-> NoArgument, isAwait |-> FALSE]

\* A slip: the argument of an await is taken without looking at its type.
getStandaloneCallAnyAwait(expr) ==
    IF expr.type = "CallExpression"
    THEN [call |-> [type |-> expr.type, tsType |-> expr.tsType], isAwait |-> FALSE]
    ELSE IF expr.type = "AwaitExpression"
         THEN [call |-> expr.argument, isAwait |-> TRUE]
         ELSE NoCall

\* lines 127-138; NoCall is the null result.
getStandaloneCall(expr) ==
    IF expr.type = "CallExpression"
    THEN [call |-> [type |-> expr.type, tsType |-> expr.tsType], isAwait |-> FALSE]
    ELSE IF expr.type = "AwaitExpression" /\ expr.argument.type = "CallExpression"
         THEN [call |-> expr.argument, isAwait |-> TRUE]
         ELSE NoCall

\* A slip: the awaited type is never taken.
getAwaitedTypeIdentity(chk, type, awaited) == type

\* A slip: the promised-type extraction is tried before getAwaitedType.
getAwaitedTypePromisedFirst(chk, type, awaited) ==
    IF chk.getPromisedTypeOfPromise
    THEN IF TypeGraph[type].promised # Undefined
         THEN TypeGraph[type].promised
         ELSE type
    ELSE IF chk.getAwaitedType
         THEN IF awaited # Undefined THEN awaited ELSE type
         ELSE type

\* lines 25-41; awaited is the answer of checker.getAwaitedType(type) when
\* the checker has that operation.
getAwaitedType(chk, type, awaited) ==
    IF chk.getAwaitedType
    THEN IF awaited # Undefined THEN awaited ELSE type
    ELSE IF chk.getPromisedTypeOfPromise
         THEN IF getPromisedTypeOfPromise(type) # Undefined
              THEN getPromisedTypeOfPromise(type)
              ELSE type
         ELSE type

isUnion(type) == "Union" \in TypeGraph[type].flags

isIntersection(type) == "Intersection" \in TypeGraph[type].flags

isTypeParameter(type) == "TypeParameter" \in TypeGraph[type].flags

\* A slip: intersections are not expanded.
FlattenCallsUnionsOnly(type) ==
    IF "Union" \in TypeGraph[type].flags THEN TypeGraph[type].types
    ELSE IF "TypeParameter" \in TypeGraph[type].flags
            /\ TypeGraph[type].constraint # Undefined
         THEN <<TypeGraph[type].constraint>>
         ELSE <<>>

\* lines 51-58: the recursive calls flattenTypes(type) makes, in order.
FlattenCalls(type) ==
    IF isUnion(type) THEN TypeGraph[type].types
    ELSE IF isIntersection(type) THEN TypeGraph[type].types
    ELSE IF isTypeParameter(type) /\ getBaseConstraintOfType(type) # Undefined
         THEN <<getBaseConstraintOfType(type)>>
         ELSE <<>>

\* line 60: flattenTypes(type) returns [type].
ReturnsItself(type) ==
    /\ ~isUnion(type)
    /\ ~isIntersection(type)
    /\ ~(isTypeParameter(type) /\ getBaseConstraintOfType(type) # Undefined)

\* lines 75-77: the leaves isErrorOrSubclass skips.
SkippedLeaf(t) ==
    \/ "Any" \in TypeGraph[t].flags
    \/ "Unknown" \in TypeGraph[t].flags
    \/ "Never" \in TypeGraph[t].flags

\* A slip: the name is compared in the wrong case.
NamedErrorLowercase(type) == TypeGraph[type].symbol = "error"

\* lines 98-99.
NamedError(type) ==
    TypeGraph[type].symbol # NoSymbol /\ TypeGraph[type].symbol = "Error"

\* lines 102, 106.
ClassOrInterface(type) ==
    /\ "Object" \in TypeGraph[type].flags
    /\ TypeGraph[type].objectFlags \cap {"Class", "Interface"} # {}

\* A slip: only the first base type is walked.
BasesOfFirstOnly(type) ==
    IF getBaseTypes(type) = Undefined \/ getBaseTypes(type) = <<>>
    THEN <<>>
    ELSE <<getBaseTypes(type)[1]>>

\* line 109: checker.getBaseTypes(iface) ?? [].
BasesOf(type) ==
    IF getBaseTypes(type) = Undefined THEN <<>> ELSE getBaseTypes(type)

\* A slip: the Set is never consulted.
SeenHasNever(s, type) == FALSE

\* line 95.
SeenHas(s, type) == type \in s

\* A slip: the negation of line 178 is dropped.
ReportsInverted(res) == res = "false"

\* line 178: if (!isErrorOrSubclass(checker, returnType)) return;
Reports(res) == res = "true"

\* lines 180-183.
Diagnostic(n) == [node |-> n.id, messageId |-> "requireErrorCheck"]

(***************************************************************************)
(* State.                                                                  *)
(***************************************************************************)
VARIABLES
    checker,      \* the checker version of this lint run
    visited,      \* statements the host has visited so far
    node,         \* the statement being visited
    pc,           \* where the callback is
    extracted,    \* getStandaloneCall's result
    answer,       \* what the unwrap operation answered (Undefined: nothing)
    returnType,   \* the type handed to isErrorOrSubclass
    fstack,       \* flattenTypes' call stack: frames [type, next]
    parts,        \* the leaves flattenTypes has returned so far
    idx,          \* position of isErrorOrSubclass' loop in parts
    seen,         \* the Set of the current walk
    wstack,       \* isErrorInterfaceOrBase's call stack: frames [type, next]
    result,       \* isErrorOrSubclass' result: "pending", "true", "false"
    diagnostics,  \* what context.report received
    walkTrail,    \* history: types inspected since the walk's Set was made
    callTrail     \* history: types inspected since isErrorOrSubclass began

vars == <<checker, declared, visited, node, pc, extracted, answer, returnType,
          fstack, parts, idx, seen, wstack, result, diagnostics, walkTrail,
          callTrail>>

Top(stack) == stack[Len(stack)]

Pop(stack) == SubSeq(stack, 1, Len(stack) - 1)

Frame(type) == [type |-> type, next |-> 0]

Advance(stack) == [stack EXCEPT ![Len(stack)].next = @ + 1]

Init ==
    /\ checker \in Checkers
    /\ declared = NoDeclarations
    /\ visited = 0
    /\ node = NoNode
    /\ pc = "idle"
    /\ extracted = NoCall
    /\ answer = Undefined
    /\ returnType = Undefined
    /\ fstack = <<>>
    /\ parts = <<>>
    /\ idx = 1
    /\ seen = {}
    /\ wstack = <<>>
    /\ result = "pending"
    /\ diagnostics = <<>>
    /\ walkTrail = <<>>
    /\ callTrail = <<>>

\* The callback is between statements.
Between == pc \in {"idle", "returned", "not called"}

Fresh(n) ==
    /\ visited' = visited + 1
    /\ node' = n
    /\ fstack' = <<>>
    /\ parts' = <<>>
    /\ idx' = 1
    /\ seen' = {}
    /\ wstack' = <<>>
    /\ result' = "pending"
    /\ walkTrail' = <<>>
    /\ callTrail' = <<>>
    /\ UNCHANGED <<checker, diagnostics>>

\* The host meets a statement that is no expression statement: the rule has
\* no callback for it (lines 160-164: the only key is ExpressionStatement).
HostOtherStatement ==
    /\ Between
    /\ visited < MaxStatements
    /\ \E k \in OtherStatementKinds, t \in ProbeTypes :
          Fresh([id |-> visited + 1, type |-> k, expression |-> CallExpression(t)])
    /\ declared' = NoDeclarations
    /\ pc' = "not called"
    /\ extracted' = NoCall
    /\ answer' = Undefined
    /\ returnType' = Undefined

\* The expressions an expression statement of the file may hold.
Expressions(Types) ==
    {CallExpression(t) : t \in Types} \cup {AwaitCall(t) : t \in Types}
        \cup {OtherExpression(shape, t) : shape \in OtherShapes, t \in ProbeTypes}

\* The programs a statement is checked in: every declaration of F1 and F2
\* when the statement is a direct call of a type built from them.
Programs(expr) ==
    IF expr.tsType \in BuiltFromFreeTypes THEN Declarations ELSE {NoDeclarations}

\* lines 164-176: the callback up to the call of isErrorOrSubclass.
ExpressionStatement(Types) ==
    /\ Between
    /\ visited < MaxStatements
    /\ \E expr \in Expressions(Types) :
          /\ Fresh([id |-> visited + 1, type |-> "ExpressionStatement",
                    expression |-> expr])
          /\ declared' \in Programs(expr)
          /\ extracted' = getStandaloneCall(expr)
          /\ IF extracted' = NoCall
             THEN /\ pc' = "returned"
                  /\ answer' = Undefined
                  /\ returnType' = Undefined
             ELSE /\ pc' = "flatten"
                  /\ IF extracted'.isAwait
                     THEN \E awaited \in AwaitedAnswers(getTypeAtLocation(extracted'.call)) :
                             /\ answer' =
                                  IF checker.getAwaitedType THEN awaited
                                  ELSE IF checker.getPromisedTypeOfPromise
                                       THEN getPromisedTypeOfPromise(
                                                getTypeAtLocation(extracted'.call))
                                       ELSE Undefined
                             /\ returnType' =
                                  getAwaitedType(checker,
                                      getTypeAtLocation(extracted'.call), awaited)
                     ELSE /\ answer' = Undefined
                          /\ returnType' = getTypeAtLocation(extracted'.call)

walkVars == <<idx, seen, wstack, result, diagnostics, walkTrail, callTrail>>
fixed == <<checker, declared, visited, node, extracted, answer, returnType>>

\* line 71: isErrorOrSubclass calls flattenTypes(checker, type).
FlattenEnter ==
    /\ pc = "flatten"
    /\ fstack = <<>>
    /\ parts = <<>>
    /\ fstack' = <<[type |-> returnType, next |-> 1]>>
    /\ pc' = "flattening"
    /\ UNCHANGED <<parts, walkVars, fixed>>

\* lines 51, 52, 57: the next recursive call of the frame on top.
FlattenCall ==
    /\ pc = "flattening"
    /\ Top(fstack).next <= Len(FlattenCalls(Top(fstack).type))
    /\ Len(fstack) < StackLimit
    /\ fstack' = Append(Advance(fstack),
                        [type |-> FlattenCalls(Top(fstack).type)[Top(fstack).next],
                         next |-> 1])
    /\ UNCHANGED <<pc, parts, walkVars, fixed>>

\* The same call with the stack full: RangeError leaves the callback.
FlattenOverflow ==
    /\ pc = "flattening"
    /\ Top(fstack).next <= Len(FlattenCalls(Top(fstack).type))
    /\ Len(fstack) = StackLimit
    /\ pc' = "RangeError"
    /\ UNCHANGED <<fstack, parts, walkVars, fixed>>

\* lines 51, 52, 57, 60: the frame on top returns; a leaf returns [type].
FlattenReturn ==
    /\ pc = "flattening"
    /\ Top(fstack).next > Len(FlattenCalls(Top(fstack).type))
    /\ parts' = IF ReturnsItself(Top(fstack).type)
                THEN Append(parts, Top(fstack).type)
                ELSE parts
    /\ fstack' = Pop(fstack)
    /\ pc' = IF Len(fstack) = 1 THEN "match" ELSE "flattening"
    /\ UNCHANGED <<walkVars, fixed>>

\* lines 73-77: any, unknown and never leaves are passed over.
MatchSkip ==
    /\ pc = "match"
    /\ idx <= Len(parts)
    /\ SkippedLeaf(parts[idx])
    /\ idx' = idx + 1
    /\ UNCHANGED <<pc, fstack, parts, seen, wstack, result, diagnostics,
                   walkTrail, callTrail, fixed>>

\* lines 79-80: the walk of one leaf starts on its apparent type, with a
\* new Set.
MatchWalk ==
    /\ pc = "match"
    /\ idx <= Len(parts)
    /\ ~SkippedLeaf(parts[idx])
    /\ wstack' = <<Frame(getApparentType(parts[idx]))>>
    /\ seen' = {}
    /\ walkTrail' = <<>>
    /\ pc' = "walk"
    /\ UNCHANGED <<fstack, parts, idx, result, diagnostics, callTrail, fixed>>

\* line 83: no leaf matched.
MatchNone ==
    /\ pc = "match"
    /\ idx > Len(parts)
    /\ result' = "false"
    /\ pc' = "decide"
    /\ UNCHANGED <<fstack, parts, idx, seen, wstack, diagnostics,
                   walkTrail, callTrail, fixed>>

\* The frame on top returns false to its caller (lines 95, 116); the
\* outermost frame returns to isErrorOrSubclass' loop.
ReturnFalse ==
    /\ wstack' = Pop(wstack)
    /\ pc' = IF Len(wstack) = 1 THEN "match" ELSE "walk"
    /\ idx' = IF Len(wstack) = 1 THEN idx + 1 ELSE idx

Entering == pc = "walk" /\ Top(wstack).next = 0

Inspect(type) ==
    /\ seen' = seen \cup {type}
    /\ walkTrail' = Append(walkTrail, type)
    /\ callTrail' = Append(callTrail, type)

\* line 95: the type is in the Set.
WalkSeen ==
    /\ Entering
    /\ SeenHas(seen, Top(wstack).type)
    /\ ReturnFalse
    /\ UNCHANGED <<fstack, parts, seen, result, diagnostics, walkTrail,
                   callTrail, fixed>>

\* lines 96-99, 111, 80: the type is named Error; true goes up through
\* every caller and out of isErrorOrSubclass.
WalkMatch ==
    /\ Entering
    /\ ~SeenHas(seen, Top(wstack).type)
    /\ Inspect(Top(wstack).type)
    /\ NamedError(Top(wstack).type)
    /\ wstack' = <<>>
    /\ result' = "true"
    /\ pc' = "decide"
    /\ UNCHANGED <<fstack, parts, idx, diagnostics, fixed>>

\* lines 96-109: a class or interface; its base types are walked next.
WalkBases ==
    /\ Entering
    /\ ~SeenHas(seen, Top(wstack).type)
    /\ Inspect(Top(wstack).type)
    /\ ~NamedError(Top(wstack).type)
    /\ ClassOrInterface(Top(wstack).type)
    /\ wstack' = Advance(wstack)
    /\ UNCHANGED <<pc, fstack, parts, idx, result, diagnostics, fixed>>

\* lines 96-116: any other type has no base types to walk.
WalkNoBases ==
    /\ Entering
    /\ ~SeenHas(seen, Top(wstack).type)
    /\ Inspect(Top(wstack).type)
    /\ ~NamedError(Top(wstack).type)
    /\ ~ClassOrInterface(Top(wstack).type)
    /\ ReturnFalse
    /\ UNCHANGED <<fstack, parts, result, diagnostics, fixed>>

\* lines 110-111: the call for the next base type.
WalkCall ==
    /\ pc = "walk"
    /\ Top(wstack).next >= 1
    /\ Top(wstack).next <= Len(BasesOf(Top(wstack).type))
    /\ wstack' = Append(Advance(wstack),
                        Frame(BasesOf(Top(wstack).type)[Top(wstack).next]))
    /\ UNCHANGED <<pc, fstack, parts, idx, seen, result, diagnostics,
                   walkTrail, callTrail, fixed>>

\* lines 110-116: no base type matched.
WalkDone ==
    /\ pc = "walk"
    /\ Top(wstack).next >= 1
    /\ Top(wstack).next > Len(BasesOf(Top(wstack).type))
    /\ ReturnFalse
    /\ UNCHANGED <<fstack, parts, seen, result, diagnostics, walkTrail,
                   callTrail, fixed>>

\* lines 178-183: report unless isErrorOrSubclass returned false.
Decide ==
    /\ pc = "decide"
    /\ diagnostics' = IF Reports(result)
                      THEN Append(diagnostics, Diagnostic(node))
                      ELSE diagnostics
    /\ pc' = "returned"
    /\ UNCHANGED <<fstack, parts, idx, seen, wstack, result, walkTrail,
                   callTrail, fixed>>

Steps ==
    \/ HostOtherStatement
    \/ FlattenEnter
    \/ FlattenCall
    \/ FlattenReturn
    \/ MatchSkip
    \/ MatchWalk
    \/ MatchNone
    \/ WalkSeen
    \/ WalkMatch
    \/ WalkBases
    \/ WalkNoBases
    \/ WalkCall
    \/ WalkDone
    \/ Decide

\* The rule over the types of a program the TypeScript checker resolved.
Next ==
    \/ ExpressionStatement(ResolvedTypes)
    \/ Steps

Spec == Init /\ [][Next]_vars

\* The rule over any type graph behind the checker's interface, circular
\* base constraints included.
NextAnyGraph ==
    \/ ExpressionStatement(AllTypes)
    \/ FlattenOverflow
    \/ Steps

SpecAnyGraph == Init /\ [][NextAnyGraph]_vars


(***************************************************************************)
(* Vocabulary of the properties.                                           *)
(***************************************************************************)
callType == extracted.call.tsType

\* The callback took a call out of the current statement.
Extracted == node.id > 0 /\ extracted # NoCall

\* context.report was called for the current statement.
ReportsFor(n) == SelectSeq(diagnostics, LAMBDA d : d.node = n.id)

Reported == ReportsFor(node) # <<>>

BareCall(n) ==
    n.type = "ExpressionStatement" /\ n.expression.type = "CallExpression"

AwaitOfCall(n) ==
    /\ n.type = "ExpressionStatement"
    /\ n.expression.type = "AwaitExpression"
    /\ n.expression.argument.type = "CallExpression"

\* The types reachable from the types of S along declared base-type edges,
\* only the edges out of the types of Followed being followed.
RECURSIVE Ancestors(_, _)
Ancestors(S, Followed) ==
    LET more == S \cup UNION {{getBaseTypes(n)[i] : i \in 1..Len(getBaseTypes(n))} :
                              n \in S \cap Followed}
    IN  IF more = S THEN S ELSE Ancestors(more, Followed)

AnyObject == {n \in AllTypes : "Object" \in TypeGraph[n].flags}

FlaggedClassOrInterface ==
    {n \in AllTypes : /\ "Object" \in TypeGraph[n].flags
                      /\ \/ "Class" \in TypeGraph[n].objectFlags
                         \/ "Interface" \in TypeGraph[n].objectFlags}

\* The leaves of a type: unions and intersections expanded, a constrained
\* type parameter replaced by the leaves of its constraint; an unconstrained
\* type parameter is a leaf itself when bareIsLeaf, and contributes nothing
\* otherwise.
RECURSIVE Leaves(_, _)
Leaves(t, bareIsLeaf) ==
    LET RECURSIVE Cat(_, _)
        Cat(ts, i) == IF i > Len(ts) THEN <<>>
                      ELSE Leaves(ts[i], bareIsLeaf) \o Cat(ts, i + 1)
    IN  IF "Union" \in TypeGraph[t].flags \/ "Intersection" \in TypeGraph[t].flags
        THEN Cat(TypeGraph[t].types, 1)
        ELSE IF "TypeParameter" \in TypeGraph[t].flags
             THEN IF TypeGraph[t].constraint # Undefined
                  THEN Leaves(TypeGraph[t].constraint, bareIsLeaf)
                  ELSE IF bareIsLeaf THEN <<t>> ELSE <<>>
             ELSE <<t>>

ItselfAsLeaf == TRUE

NoLeaf == FALSE

Uninformative(t) == TypeGraph[t].flags \cap {"Any", "Unknown", "Never"} # {}

\* Section 4.3 as a predicate on a type: some leaf that is not any, unknown
\* or never has an apparent type from which a type named Error is reachable
\* along base-type edges out of class-or-interface types.
MayBeError(t) ==
    \E i \in 1..Len(Leaves(t, ItselfAsLeaf)) :
        LET leaf == Leaves(t, ItselfAsLeaf)[i]
        IN  /\ ~Uninformative(leaf)
            /\ \E a \in Ancestors({TypeGraph[leaf].apparent}, FlaggedClassOrInterface) :
                   TypeGraph[a].symbol = "Error"

NoDuplicates(q) == \A i, j \in 1..Len(q) : q[i] = q[j] => i = j

(***************************************************************************)
(* C1.  A bare call whose type is Error itself, or a union with Error as   *)
(* one member, gets exactly one diagnostic, at the statement node, with    *)
(* message id requireErrorCheck, by the time the callback returns.         *)
(***************************************************************************)
ErrorOrUnionWithError(t) ==
    \/ t = "Error"
    \/ /\ "Union" \in TypeGraph[t].flags
       /\ \E i \in 1..Len(TypeGraph[t].types) : TypeGraph[t].types[i] = "Error"

C1_ErrorCallReportedOnce ==
    (pc = "returned" /\ BareCall(node)
        /\ ErrorOrUnionWithError(node.expression.tsType))
    => ReportsFor(node) = <<[node |-> node.id, messageId |-> "requireErrorCheck"]>>

C1_Witness ==
    /\ pc = "returned"
    /\ BareCall(node)
    /\ node.expression.tsType = "StringOrError"
    /\ node.id = 2
    /\ diagnostics = <<[node |-> 2, messageId |-> "requireErrorCheck"]>>

(***************************************************************************)
(* C2.  A bare call whose type is not named Error but has Error among the  *)
(* ancestors of its declared base-type chain, at any depth, is reported    *)
(* by the time the callback returns.                                       *)
(***************************************************************************)
SubtypeByExtension(t) ==
    /\ "Object" \in TypeGraph[t].flags
    /\ TypeGraph[t].symbol # "Error"
    /\ \E a \in Ancestors({t}, AnyObject) : TypeGraph[a].symbol = "Error"

C2_SubtypeCallReported ==
    (pc = "returned" /\ BareCall(node) /\ SubtypeByExtension(node.expression.tsType))
    => Reported

(***************************************************************************)
(* C3.  A call, awaited or not, whose resolved type is any, unknown or     *)
(* never (the checker's error type is an any) gets no diagnostic.          *)
(***************************************************************************)
C3_UninformativeNeverReported ==
    (Extracted /\ Uninformative(returnType)) => ~Reported

C3_Witness ==
    /\ pc = "returned"
    /\ Extracted
    /\ extracted.isAwait
    /\ returnType = "errorType"
    /\ result = "false"

(***************************************************************************)
(* C4.  As claimed: for await <call> the statement is reported exactly     *)
(* when the settled type of the call is error-compatible.                  *)
(***************************************************************************)
C4_AwaitDecidedOnSettledType ==
    (pc = "returned" /\ AwaitOfCall(node) /\ Extracted)
    => (Reported <=> MayBeError(Settled(callType)))

(***************************************************************************)
(* C4, amended.  For await <call> the statement is reported exactly when   *)
(* the type the decision is made on is error-compatible: the settled type  *)
(* when the checker's unwrap operation answered, the call's own type when  *)
(* the checker has neither operation or the operation answered nothing.    *)
(***************************************************************************)
C4_AwaitDecidedOnUnwrapAnswer ==
    (pc = "returned" /\ AwaitOfCall(node) /\ Extracted)
    => (Reported <=> MayBeError(IF answer # Undefined
                                THEN Settled(callType)
                                ELSE callType))

C4_Witness ==
    /\ pc = "returned"
    /\ AwaitOfCall(node)
    /\ callType = "PromiseOfErrorOrString"
    /\ answer = "ErrorOrString"
    /\ Reported

(***************************************************************************)
(* C5.  A statement that is not an expression statement holding a call or  *)
(* an await of a call never gets a diagnostic.                             *)
(***************************************************************************)
C5_OnlyStandaloneCallsReported ==
    ~(BareCall(node) \/ AwaitOfCall(node)) => ~Reported

C5_Witness ==
    /\ pc = "returned"
    /\ node.type = "ExpressionStatement"
    /\ node.expression.type = "AwaitExpression"
    /\ node.expression.argument.type = "AwaitExpression"
    /\ node.expression.argument.tsType = "Error"
    /\ diagnostics = <<>>

(***************************************************************************)
(* C6.  One call of isErrorOrSubclass returns on every type graph: it      *)
(* never recurses until the call stack is exhausted.                       *)
(***************************************************************************)
C6_MatcherReturns == pc # "RangeError"

(***************************************************************************)
(* C7.  As claimed: during one call of isErrorOrSubclass no type is        *)
(* inspected twice by the supertype walk.                                  *)
(***************************************************************************)
C7_InspectedOncePerMatcherCall == NoDuplicates(callTrail)

(***************************************************************************)
(* C7, amended.  During the walk of one leaf (one outermost call of        *)
(* isErrorInterfaceOrBase, with its own Set) no type is inspected twice,   *)
(* the Set holds exactly the types inspected, and a type found in the Set  *)
(* is not inspected.                                                       *)
(***************************************************************************)
C7_InspectedOncePerWalk ==
    /\ NoDuplicates(walkTrail)
    /\ seen = {walkTrail[i] : i \in 1..Len(walkTrail)}

C7_Witness ==
    /\ pc = "walk"
    /\ returnType = "CycErrA"
    /\ Top(wstack).next = 0
    /\ Top(wstack).type = "CycErrA"
    /\ walkTrail = <<"CycErrA", "CycErrB">>

(***************************************************************************)
(* C8.  As claimed: flattenTypes returns the leaves of the type, an        *)
(* unconstrained type parameter contributing no leaf.                      *)
(***************************************************************************)
C8_FlattenDropsBareParameter ==
    pc = "match" => parts = Leaves(returnType, NoLeaf)

(***************************************************************************)
(* C8, amended.  flattenTypes returns the leaves of the type, an           *)
(* unconstrained type parameter being a leaf itself; that leaf never       *)
(* makes isErrorOrSubclass return true.                                    *)
(***************************************************************************)
C8_FlattenKeepsBareParameter ==
    /\ pc \in {"match", "walk", "decide"} => parts = Leaves(returnType, ItselfAsLeaf)
    /\ (pc = "decide" /\ result = "true") =>
           "TypeParameter" \notin TypeGraph[parts[idx]].flags

C8_Witness ==
    /\ pc = "match"
    /\ returnType = "TOrNull"
    /\ parts = <<"T", "null">>

(***************************************************************************)
(* C9.  The type handed to the matcher is the call's type when the call    *)
(* is not awaited; when it is, the answer of getAwaitedType if the checker *)
(* has that operation, else the answer of getPromisedTypeOfPromise if it   *)
(* has that one; and the call's type whenever there is no answer.          *)
(***************************************************************************)
C9_ResolverFallsBack ==
    Extracted =>
        /\ returnType \in AllTypes
        /\ ~extracted.isAwait => returnType = callType
        /\ (extracted.isAwait /\ checker.getAwaitedType) =>
               /\ answer \in AwaitedAnswers(callType)
               /\ returnType = IF answer = Undefined THEN callType ELSE answer
        /\ (extracted.isAwait /\ ~checker.getAwaitedType
               /\ checker.getPromisedTypeOfPromise) =>
               /\ answer = TypeGraph[callType].promised
               /\ returnType = IF answer = Undefined THEN callType ELSE answer
        /\ (extracted.isAwait /\ ~checker.getAwaitedType
               /\ ~checker.getPromisedTypeOfPromise) =>
               returnType = callType

C9_Witness ==
    /\ Extracted
    /\ extracted.isAwait
    /\ checker.getAwaitedType
    /\ checker.getPromisedTypeOfPromise
    /\ callType = "PromiseOfMyError"
    /\ answer = Undefined
    /\ returnType = "PromiseOfMyError"

(***************************************************************************)
(* C10.  isErrorOrSubclass returns true exactly when some leaf of the type *)
(* that is not any, unknown or never has an apparent type from which a     *)
(* type named Error is reachable along base-type edges out of              *)
(* class-or-interface types, whatever the order of leaves and bases.       *)
(***************************************************************************)
C10_TrueIffErrorReachable ==
    (pc \in {"decide", "returned"} /\ Extracted)
    => (result = "true" <=> MayBeError(returnType))

C10_Witness ==
    /\ pc = "decide"
    /\ returnType = "PlainAndUnion"
    /\ result = "true"
    /\ callTrail = <<"Plain", "MyError", "Error">>

=============================================================================
